---- MODULE Spec2Model ----
(***************************************************************************)
(* Sales-Performance-Dashboard: the Ingestion Normalizer                   *)
(* (src/etl/clean_superstore.py) and the Query Engine                      *)
(* (src/dash_app/app.py).                                                  *)
(*                                                                         *)
(* Numbers.  Sales, Profit and Discount are floats in the program.  They   *)
(* are modelled as integers in hundredths (0.15 is 15), so sums are exact  *)
(* and the literals 0.20 and 0.40 are 20 and 40.  A quotient is kept as    *)
(* the pair [num, den]; a pair whose den is 0 stands for what an unguarded *)
(* division by zero gives (ZeroDivisionError, or inf/NaN).                 *)
(*                                                                         *)
(* Values are records with a kind: a number Num(n), a text Text(s), a date, *)
(* and pandas' missing values NaN (float), NaT (date), NA (text, Int64).   *)
(*                                                                         *)
(* Column names are sequences of tokens: a token is one whitespace         *)
(* character (SP) or a maximal run of non-whitespace characters (a word),  *)
(* so "Order Date" is <<"Order", SP, "Date">>.                             *)
(***************************************************************************)
EXTENDS Integers, Sequences, FiniteSets, TLC

VARIABLES
    \* discount_bucket applied to one value
    bucket_x, bucket_out,
    \* normalize_columns applied repeatedly to one header
    cols_orig, cols_prev, cols_cur, cols_n,
    \* clean_superstore.main: the input file, the program counter, the frame
    \* being built, whether the output directory exists, the profiling report
    raw, etl_pc, df, outdir, profile_txt,
    \* data/processed/superstore_cleaned.csv: main writes it, load_data reads it
    csv,
    \* dash_app.app: the loaded table DF and the update callbacks in flight
    DF, req

vars == <<bucket_x, bucket_out, cols_orig, cols_prev, cols_cur, cols_n,
          raw, etl_pc, df, outdir, profile_txt, csv, DF, req>>

bucketVars == <<bucket_x, bucket_out>>
colsVars == <<cols_orig, cols_prev, cols_cur, cols_n>>
etlVars == <<raw, etl_pc, df, outdir, profile_txt>>
appVars == <<DF, req>>

----------------------------------------------------------------------------
(* Bounds of the model *)

\* discount values tried: -NegSpan .. MaxDiscount hundredths
MaxDiscount == 100
NegSpan == 5
\* a column name has at most MaxNameLen tokens, a header at most MaxCols names
MaxNameLen == 4
MaxCols == 1
\* normalize_columns is applied at most MaxPasses times in a row
MaxPasses == 2

----------------------------------------------------------------------------
(* Values *)

NaN == [kind |-> "nan", v |-> 0]
Num(n) == [kind |-> "num", v |-> n]
\* a value that is not a number (a str): comparing it with a float raises
Str == [kind |-> "str", v |-> 0]

\* pd.isna on a scalar
isna(x) == x.kind \in {"na", "nan", "nat"}

RECURSIVE SeqSum(_)
SeqSum(s) == IF s = <<>> THEN 0 ELSE Head(s) + SeqSum(Tail(s))

RECURSIVE Dedup(_)
\* the distinct elements of s, in order of first appearance
Dedup(s) ==
    IF s = <<>> THEN <<>>
    ELSE LET r == Dedup(SubSeq(s, 1, Len(s) - 1))
             x == s[Len(s)]
         IN IF \E i \in 1..Len(r) : r[i] = x THEN r ELSE Append(r, x)

Range(s) == {s[i] : i \in 1..Len(s)}


\* all sequences over S of length 0..n
SeqsUpTo(S, n) == UNION {[1..k -> S] : k \in 0..n}

----------------------------------------------------------------------------
(* clean_superstore.discount_bucket *)

Unknown == "Unknown"
NoDiscount == "No Discount"
Low == "Low (0-20%)"
Medium == "Medium (20-40%)"
High == "High (40%+)"
Buckets == {Unknown, NoDiscount, Low, Medium, High}

\* the literals 0.20 and 0.40, in hundredths
LowMax == 20
MediumMax == 40

\* what leaves the try block: a bucket, or "raise" when a comparison raises.
\* x == 0 is False for a str; x <= 0.20 raises TypeError for a str.
discount_bucket_try(x) ==
    IF isna(x) THEN Unknown
    ELSE IF x.kind = "num" /\ x.v = 0 THEN NoDiscount
    ELSE IF x.kind # "num" THEN "raise"
    ELSE IF x.v <= LowMax THEN Low
    ELSE IF x.v <= MediumMax THEN Medium
    ELSE High

\* a plausible slip: the body without its try/except
discount_bucket_no_except(x) == discount_bucket_try(x)

discount_bucket(x) ==
    IF discount_bucket_try(x) = "raise" THEN Unknown ELSE discount_bucket_try(x)

BucketInputs == {NaN, Str} \cup {Num(n) : n \in (0 - NegSpan)..MaxDiscount}

BucketInit ==
    /\ bucket_x = NaN
    /\ bucket_out = "none"

\* df["Discount"].apply(discount_bucket), one value at a time
ApplyBucket ==
    /\ \E x \in BucketInputs :
        /\ bucket_x' = x
        /\ bucket_out' = discount_bucket(x)
    /\ UNCHANGED <<colsVars, etlVars, csv, appVars>>

----------------------------------------------------------------------------
(* clean_superstore.normalize_columns *)

SP == " "
IsSpace(t) == t = SP

RECURSIVE split(_)
\* str.strip().split(): the words of a name, each the tokens between two runs
\* of whitespace
split(name) ==
    IF name = <<>> THEN <<>>
    ELSE IF IsSpace(Head(name)) THEN split(Tail(name))
    ELSE IF Len(name) > 1 /\ ~IsSpace(name[2])
         THEN LET rest == split(Tail(name))
              IN <<(<<Head(name)>> \o Head(rest))>> \o Tail(rest)
    ELSE <<(<<Head(name)>>)>> \o split(Tail(name))

RECURSIVE join(_)
\* " ".join(words)
join(words) ==
    IF words = <<>> THEN <<>>
    ELSE IF Len(words) = 1 THEN words[1]
    ELSE words[1] \o <<SP>> \o join(Tail(words))

\* " ".join(str(c).strip().split())
clean_name(c) == join(split(c))

OrderDate == <<"Order", SP, "Date">>
ShipDate == <<"Ship", SP, "Date">>
OrderID == <<"Order", SP, "ID">>
CustomerID == <<"Customer", SP, "ID">>
CustomerName == <<"Customer", SP, "Name">>
ProductID == <<"Product", SP, "ID">>
ProductName == <<"Product", SP, "Name">>
SubCategory == <<"Sub-Category">>
SubCategoryAlt == <<"Sub", SP, "Category">>
Category == <<"Category">>
Segment == <<"Segment">>
Region == <<"Region">>
State == <<"State">>
City == <<"City">>
PostalCode == <<"Postal", SP, "Code">>
ShipMode == <<"Ship", SP, "Mode">>
Sales == <<"Sales">>
Profit == <<"Profit">>
Discount == <<"Discount">>
Quantity == <<"Quantity">>

Canonical ==
    {OrderDate, ShipDate, OrderID, CustomerID, CustomerName, ProductID,
     ProductName, SubCategory, Category, Segment, Region, State, City,
     PostalCode, ShipMode, Sales, Profit, Discount, Quantity}

\* the renames dict: every canonical name maps to itself, "Sub Category" to
\* "Sub-Category"
renames(c) == IF c = SubCategoryAlt THEN SubCategory ELSE c
renamesKeys == Canonical \cup {SubCategoryAlt}

rename_known(c) == IF c \in renamesKeys THEN renames(c) ELSE c

\* a plausible slip: the two renames in the other order, the alternate
\* spellings looked up before the names are trimmed
normalize_columns_rename_first(columns) ==
    [i \in 1..Len(columns) |-> clean_name(rename_known(columns[i]))]

\* the header of the frame normalize_columns returns
normalize_columns(columns) ==
    [i \in 1..Len(columns) |-> rename_known(clean_name(columns[i]))]

Tokens == {SP, "Sub", "Category"}
RawNames == SeqsUpTo(Tokens, MaxNameLen) \ {<<>>}

ColsInit ==
    /\ \E k \in 0..MaxCols : cols_orig \in [1..k -> RawNames]
    /\ cols_prev = cols_orig
    /\ cols_cur = cols_orig
    /\ cols_n = 0

Normalize ==
    /\ cols_n < MaxPasses
    /\ cols_prev' = cols_cur
    /\ cols_cur' = normalize_columns(cols_cur)
    /\ cols_n' = cols_n + 1
    /\ UNCHANGED <<cols_orig, bucketVars, etlVars, csv, appVars>>

----------------------------------------------------------------------------
(* clean_superstore.main *)

\* rows of the raw file: at most MaxRawRows
MaxRawRows == 2

\* what read_csv turns into a missing value (pandas' default na_values; the
\* ones the model's cells use)
NaValues == {"", "NA"}
NA == [kind |-> "na", v |-> ""]
Text(s) == [kind |-> "text", v |-> s]
NaT == [kind |-> "nat", y |-> 0, m |-> 0, d |-> 0, ord |-> 0]
NAInt == [kind |-> "na", v |-> 0]
Int64(n) == [kind |-> "int", v |-> n]

\* pd.isna / DataFrame.isna on one cell
IsMissing(x) == x.kind \in {"na", "nan", "nat"}

ShipDays == <<"Ship", SP, "Days">>
DiscountBucket == <<"Discount", SP, "Bucket">>

\* the columns of a full raw file, in file order
FullColumns ==
    <<OrderDate, ShipDate, OrderID, Region, Segment, Category, SubCategory,
      State, ShipMode, Sales, Profit, Discount, PostalCode>>

\* the same header as a mirror spells it: padded, with "Sub Category"
MirrorColumns ==
    [FullColumns EXCEPT ![1] = <<SP, "Order", SP, SP, "Date">>,
                        ![7] = SubCategoryAlt,
                        ![10] = <<"Sales", SP>>]

BaseRow ==
    <<"2014-01-15", "2014-01-18", "US-001", "West", "Consumer", "Furniture",
      "Chairs", "California", "First Class", "100.00", "20.00", "0.15",
      "90210">>
EmptyRow == [i \in 1..Len(FullColumns) |-> ""]
Only(i, text) == [EmptyRow EXCEPT ![i] = text]

\* the raw rows tried
RawRows ==
    { BaseRow,
      EmptyRow,
      [EmptyRow EXCEPT ![4] = "NA"],
      [BaseRow EXCEPT ![1] = "not a date"],
      [BaseRow EXCEPT ![10] = "abc", ![12] = ""],
      Only(10, "abc"),
      Only(1, "not a date"),
      [BaseRow EXCEPT ![2] = "2014-01-10", ![12] = "0", ![13] = "90210.0"],
      [BaseRow EXCEPT ![13] = "K1A 0B1"] }

\* columns a raw file may lack
Droppable == {OrderDate, ShipDate, OrderID, Discount, PostalCode}

Keep(s, cols, drop) ==
    LET kept == SelectSeq([i \in 1..Len(cols) |-> i],
                          LAMBDA i : FullColumns[i] \notin drop)
    IN [k \in 1..Len(kept) |-> s[kept[k]]]

RawFiles ==
    { [readable |-> FALSE, columns |-> <<>>, rows |-> <<>>] } \cup
    { [readable |-> TRUE,
       columns |-> Keep(h, FullColumns, drop),
       rows |-> [i \in 1..Len(rs) |-> Keep(rs[i], FullColumns, drop)]] :
        h \in {FullColumns, MirrorColumns},
        drop \in SUBSET Droppable,
        rs \in SeqsUpTo(RawRows, MaxRawRows) }

\* the texts pd.to_datetime parses, with their day number (days since
\* 1970-01-01); any other text is coerced to NaT
Date(y, m, d, ord) == [kind |-> "date", y |-> y, m |-> m, d |-> d, ord |-> ord]
ParseDate(text) ==
    CASE text = "2014-01-10" -> Date(2014, 1, 10, 16080)
      [] text = "2014-01-15" -> Date(2014, 1, 15, 16085)
      [] text = "2014-01-18" -> Date(2014, 1, 18, 16088)
      [] text = "2014-02-03" -> Date(2014, 2, 3, 16104)
      [] text = "2015-01-20" -> Date(2015, 1, 20, 16455)
      [] OTHER -> NaT

\* pd.to_datetime(x, errors="coerce") on one cell
to_datetime(x) == IF IsMissing(x) THEN NaT ELSE ParseDate(x.v)

\* the texts pd.to_numeric parses, in hundredths; any other is coerced to NaN
ParseNum(text) ==
    CASE text = "100.00" -> Num(10000)
      [] text = "-100.00" -> Num(0 - 10000)
      [] text = "50.00" -> Num(5000)
      [] text = "20.00" -> Num(2000)
      [] text = "-20.00" -> Num(0 - 2000)
      [] text = "0.15" -> Num(15)
      [] text = "0.30" -> Num(30)
      [] text = "0.50" -> Num(50)
      [] text = "0" -> Num(0)
      [] OTHER -> NaN

\* pd.to_numeric(x, errors="coerce") on one cell
to_numeric(x) == IF IsMissing(x) THEN NaN ELSE ParseNum(x.v)

\* the postal codes that are whole numbers, as read_csv parses them (it reads
\* "90210.0", and any code in a column with a gap, as a float)
IntegralTexts == {"90210", "90210.0"}
ParseInt(text) ==
    CASE text = "90210" -> Int64(90210)
      [] text = "90210.0" -> Int64(90210)

\* astype("Int64") raises on a column holding text or a non-integral float
CanCastInt64(cells) ==
    \A i \in 1..Len(cells) : IsMissing(cells[i]) \/ cells[i].v \in IntegralTexts
to_Int64(x) == IF IsMissing(x) THEN NAInt ELSE ParseInt(x.v)

HasCol(f, c) == \E i \in 1..Len(f.columns) : f.columns[i] = c
ColIndex(f, c) == CHOOSE i \in 1..Len(f.columns) : f.columns[i] = c
Cell(f, r, c) == f.rows[r].cells[ColIndex(f, c)]
Column(f, c) == [r \in 1..Len(f.rows) |-> Cell(f, r, c)]

\* df[c] = df[c].<F>, when c is a column of df
SetCol(f, c, F(_)) ==
    IF ~HasCol(f, c) THEN f
    ELSE [f EXCEPT !.rows =
            [r \in 1..Len(f.rows) |->
                [f.rows[r] EXCEPT !.cells[ColIndex(f, c)] = F(@)]]]

\* df[c] = vals, c a new column
AddCol(f, c, vals) ==
    [columns |-> Append(f.columns, c),
     rows |-> [r \in 1..Len(f.rows) |->
                 [f.rows[r] EXCEPT !.cells = Append(@, vals[r])]]]

\* pd.read_csv: one frame row per file row, index 0..n-1, NA texts missing
read_csv(file) ==
    [columns |-> file.columns,
     rows |-> [r \in 1..Len(file.rows) |->
                 [idx |-> r - 1,
                  cells |-> [i \in 1..Len(file.rows[r]) |->
                               IF file.rows[r][i] \in NaValues THEN NA
                               ELSE Text(file.rows[r][i])]]]]

\* pd.read_csv(DATA_PATH, parse_dates=...) of a file main wrote: the cells
\* main wrote, index 0..n-1
read_csv_typed(file) ==
    [columns |-> file.columns,
     rows |-> [r \in 1..Len(file.rows) |-> [idx |-> r - 1, cells |-> file.rows[r]]]]

AllMissing(row) == \A i \in 1..Len(row.cells) : IsMissing(row.cells[i])
AnyMissing(row) == \E i \in 1..Len(row.cells) : IsMissing(row.cells[i])

\* a plausible slip: dropna() with its default how="any"
dropna_any(f) ==
    [f EXCEPT !.rows = SelectSeq(f.rows, LAMBDA row : ~AnyMissing(row))]

\* df.dropna(how="all")
dropna_all(f) ==
    [f EXCEPT !.rows = SelectSeq(f.rows, LAMBDA row : ~AllMissing(row))]

\* lines 93-100: dates, then numbers
coerce(f) ==
    LET d1 == SetCol(f, OrderDate, to_datetime)
        d2 == SetCol(d1, ShipDate, to_datetime)
        n1 == SetCol(d2, Sales, to_numeric)
        n2 == SetCol(n1, Profit, to_numeric)
        n3 == SetCol(n2, Discount, to_numeric)
    IN SetCol(n3, Quantity, to_numeric)

\* (Ship Date - Order Date).dt.days
ship_days(ship, order) ==
    IF IsMissing(ship) \/ IsMissing(order) THEN NaN
    ELSE Num(ship.ord - order.ord)

\* lines 107-111: the helper fields
helpers(f) ==
    LET a == IF HasCol(f, OrderDate) /\ HasCol(f, ShipDate)
             THEN AddCol(f, ShipDays,
                         [r \in 1..Len(f.rows) |->
                            ship_days(Cell(f, r, ShipDate), Cell(f, r, OrderDate))])
             ELSE f
    IN IF HasCol(a, Discount)
       THEN AddCol(a, DiscountBucket,
                   [r \in 1..Len(a.rows) |->
                      Text(discount_bucket(Cell(a, r, Discount)))])
       ELSE a

\* lines 114-126: the profiling summary
Present(s) == SelectSeq(s, LAMBDA x : ~IsMissing(x))

profile(f) ==
    [rows |-> Len(f.rows),
     columns |-> Len(f.columns),
     order_ids |->
        IF HasCol(f, OrderID)
        THEN <<[unique_order_ids |-> Len(Dedup(Present(Column(f, OrderID)))),
                duplicate_order_id_rows |->
                    Len(f.rows) - Len(Dedup(Column(f, OrderID)))]>>
        ELSE <<>>,
     nulls |-> [i \in 1..Len(f.columns) |->
                  Cardinality({r \in 1..Len(f.rows) : IsMissing(f.rows[r].cells[i])})]]

NoFile == <<>>

EtlInit ==
    /\ raw \in RawFiles
    /\ etl_pc = "start"
    /\ df = [columns |-> <<>>, rows |-> <<>>]
    /\ outdir = FALSE
    /\ profile_txt = NoFile
    /\ csv = NoFile

\* line 84: outdir.mkdir(parents=True, exist_ok=True)
MkDir ==
    /\ etl_pc = "start"
    /\ outdir' = TRUE
    /\ etl_pc' = "read"
    /\ UNCHANGED <<raw, df, profile_txt, csv, bucketVars, colsVars, appVars>>

\* line 86: pd.read_csv raises when the file cannot be read
ReadCsv ==
    /\ etl_pc = "read"
    /\ IF raw.readable
       THEN /\ df' = read_csv(raw)
            /\ etl_pc' = "transform"
       ELSE /\ df' = df
            /\ etl_pc' = "raised"
    /\ UNCHANGED <<raw, outdir, profile_txt, csv, bucketVars, colsVars, appVars>>

\* lines 87-100 of main
cleaned_frame(f) ==
    coerce(dropna_all([f EXCEPT !.columns = normalize_columns(f.columns)]))

\* lines 102-104: astype("Int64") raises on text or a non-integral float
postal_raises(f) == HasCol(f, PostalCode) /\ ~CanCastInt64(Column(f, PostalCode))

\* lines 102-111
finished_frame(f) == helpers(SetCol(f, PostalCode, to_Int64))

\* a plausible slip: the cleaned file written before the Postal Code cast
TransformWriteEarly ==
    /\ etl_pc = "transform"
    /\ LET c == cleaned_frame(df)
       IN /\ csv' = <<[columns |-> c.columns,
                       rows |-> [r \in 1..Len(c.rows) |-> c.rows[r].cells]]>>
          /\ IF postal_raises(c)
             THEN /\ df' = c
                  /\ etl_pc' = "raised"
             ELSE /\ df' = finished_frame(c)
                  /\ etl_pc' = "write_csv"
    /\ UNCHANGED <<raw, outdir, profile_txt, bucketVars, colsVars, appVars>>

\* lines 87-126: reconcile, prune, coerce, cast Postal Code, derive
Transform ==
    /\ etl_pc = "transform"
    /\ LET c == cleaned_frame(df)
       IN IF postal_raises(c)
          THEN /\ df' = c
               /\ etl_pc' = "raised"
          ELSE /\ df' = finished_frame(c)
               /\ etl_pc' = "write_csv"
    /\ UNCHANGED <<raw, outdir, profile_txt, csv, bucketVars, colsVars, appVars>>

\* df.to_csv(cleaned_csv, index=False): the header and the cells, no index
to_csv(f) ==
    [columns |-> f.columns,
     rows |-> [r \in 1..Len(f.rows) |-> f.rows[r].cells]]

\* line 131
WriteCsv ==
    /\ etl_pc = "write_csv"
    /\ csv' = <<to_csv(df)>>
    /\ etl_pc' = "write_profile"
    /\ UNCHANGED <<raw, df, outdir, profile_txt, bucketVars, colsVars, appVars>>

\* lines 133-144
WriteProfile ==
    /\ etl_pc = "write_profile"
    /\ profile_txt' = <<profile(df)>>
    /\ etl_pc' = "done"
    /\ UNCHANGED <<raw, df, outdir, csv, bucketVars, colsVars, appVars>>

----------------------------------------------------------------------------
(* dash_app.app: load_data *)

\* rows of the cleaned file the dashboard loads: at most MaxRows
MaxRows == 2

STATE_TO_ABBR ==
    [s \in {"Alabama", "Alaska", "Arizona", "Arkansas", "California",
            "Colorado", "Connecticut", "Delaware", "Florida", "Georgia",
            "Hawaii", "Idaho", "Illinois", "Indiana", "Iowa", "Kansas",
            "Kentucky", "Louisiana", "Maine", "Maryland", "Massachusetts",
            "Michigan", "Minnesota", "Mississippi", "Missouri", "Montana",
            "Nebraska", "Nevada", "New Hampshire", "New Jersey", "New Mexico",
            "New York", "North Carolina", "North Dakota", "Ohio", "Oklahoma",
            "Oregon", "Pennsylvania", "Rhode Island", "South Carolina",
            "South Dakota", "Tennessee", "Texas", "Utah", "Vermont",
            "Virginia", "Washington", "West Virginia", "Wisconsin", "Wyoming",
            "District of Columbia"} |->
        CASE s = "Alabama" -> "AL" [] s = "Alaska" -> "AK"
          [] s = "Arizona" -> "AZ" [] s = "Arkansas" -> "AR"
          [] s = "California" -> "CA" [] s = "Colorado" -> "CO"
          [] s = "Connecticut" -> "CT" [] s = "Delaware" -> "DE"
          [] s = "Florida" -> "FL" [] s = "Georgia" -> "GA"
          [] s = "Hawaii" -> "HI" [] s = "Idaho" -> "ID"
          [] s = "Illinois" -> "IL" [] s = "Indiana" -> "IN"
          [] s = "Iowa" -> "IA" [] s = "Kansas" -> "KS"
          [] s = "Kentucky" -> "KY" [] s = "Louisiana" -> "LA"
          [] s = "Maine" -> "ME" [] s = "Maryland" -> "MD"
          [] s = "Massachusetts" -> "MA" [] s = "Michigan" -> "MI"
          [] s = "Minnesota" -> "MN" [] s = "Mississippi" -> "MS"
          [] s = "Missouri" -> "MO" [] s = "Montana" -> "MT"
          [] s = "Nebraska" -> "NE" [] s = "Nevada" -> "NV"
          [] s = "New Hampshire" -> "NH" [] s = "New Jersey" -> "NJ"
          [] s = "New Mexico" -> "NM" [] s = "New York" -> "NY"
          [] s = "North Carolina" -> "NC" [] s = "North Dakota" -> "ND"
          [] s = "Ohio" -> "OH" [] s = "Oklahoma" -> "OK"
          [] s = "Oregon" -> "OR" [] s = "Pennsylvania" -> "PA"
          [] s = "Rhode Island" -> "RI" [] s = "South Carolina" -> "SC"
          [] s = "South Dakota" -> "SD" [] s = "Tennessee" -> "TN"
          [] s = "Texas" -> "TX" [] s = "Utah" -> "UT"
          [] s = "Vermont" -> "VT" [] s = "Virginia" -> "VA"
          [] s = "Washington" -> "WA" [] s = "West Virginia" -> "WV"
          [] s = "Wisconsin" -> "WI" [] s = "Wyoming" -> "WY"
          [] s = "District of Columbia" -> "DC"]

Year == <<"Year">>
Month == <<"Month">>
StateAbbr == <<"State", SP, "Abbr">>

\* df["Order Date"].dt.year
year_of(d) == IF IsMissing(d) THEN NaN ELSE Num(d.y)

\* a plausible slip: Month left as the order's own date
month_untruncated(d) == d

\* df["Order Date"].dt.to_period("M").dt.to_timestamp(): the month's first day
month_of(d) ==
    IF IsMissing(d) THEN NaT ELSE Date(d.y, d.m, 1, d.ord - (d.d - 1))

\* a plausible slip: .map(STATE_TO_ABBR).fillna(df["State"])
state_abbr_fillna(s) ==
    IF IsMissing(s) THEN NA
    ELSE IF s.v \in DOMAIN STATE_TO_ABBR THEN Text(STATE_TO_ABBR[s.v])
    ELSE s

\* df["State"].map(STATE_TO_ABBR) on one cell
state_abbr(s) ==
    IF ~IsMissing(s) /\ s.v \in DOMAIN STATE_TO_ABBR
    THEN Text(STATE_TO_ABBR[s.v]) ELSE NA

needed ==
    <<OrderDate, Region, Segment, Category, SubCategory, Sales, Profit,
      Discount, ShipMode, State, OrderID>>

\* line 34
missing_columns(columns) ==
    SelectSeq(needed, LAMBDA c : c \notin Range(columns))

\* line 30: read_csv raises ValueError ("Missing column provided to
\* 'parse_dates'") naming the date columns the file lacks
parse_dates == <<OrderDate, ShipDate>>
missing_parse_dates(columns) ==
    SelectSeq(parse_dates, LAMBDA c : c \notin Range(columns))

NotLoaded == [status |-> "none", missing |-> <<>>, columns |-> <<>>, rows |-> <<>>]

\* load_data: what the module-level DF is bound to, or the exception raised
load_data(files) ==
    IF files = NoFile
    THEN [NotLoaded EXCEPT !.status = "FileNotFoundError"]
    ELSE IF missing_parse_dates(files[1].columns) # <<>>
    THEN [NotLoaded EXCEPT !.status = "ValueError",
                           !.missing = missing_parse_dates(files[1].columns)]
    ELSE IF missing_columns(files[1].columns) # <<>>
    THEN [NotLoaded EXCEPT !.status = "ValueError",
                           !.missing = missing_columns(files[1].columns)]
    ELSE LET f == read_csv_typed(files[1])
             y == AddCol(f, Year,
                         [r \in 1..Len(f.rows) |-> year_of(Cell(f, r, OrderDate))])
             m == AddCol(y, Month,
                         [r \in 1..Len(f.rows) |-> month_of(Cell(f, r, OrderDate))])
             a == AddCol(m, StateAbbr,
                         [r \in 1..Len(f.rows) |-> state_abbr(Cell(f, r, State))])
         IN [status |-> "loaded", missing |-> <<>>,
             columns |-> a.columns, rows |-> a.rows]

\* lines 30, 38-39 on a file with a header and no rows: whether read_csv
\* makes the parse_dates columns datetime columns when there is no row to
\* parse depends on the pandas release; where it leaves them as object
\* columns, .dt raises AttributeError
load_outcomes(files) ==
    {load_data(files)} \cup
    IF files # NoFile /\ load_data(files).status = "loaded" /\ files[1].rows = <<>>
    THEN {[NotLoaded EXCEPT !.status = "AttributeError"]}
    ELSE {}

\* line 46: DF = load_data(), when the dashboard process starts
LoadData ==
    /\ DF.status = "none"
    /\ etl_pc \in {"off", "done", "raised"}
    /\ DF' \in load_outcomes(csv)
    /\ UNCHANGED <<req, csv, etlVars, bucketVars, colsVars>>

----------------------------------------------------------------------------
(* dash_app.app: the dropdown options, filter_df and update *)

\* the update callbacks that may be in flight together
Requests == {1, 2}

All == "All"

\* str(y) of the Year dropdown and int(year) of filter_df, for the years of
\* the model's dates
YearText == [y \in {2014, 2015} |-> IF y = 2014 THEN "2014" ELSE "2015"]
str(y) == YearText[y]
int(text) == CHOOSE y \in DOMAIN YearText : YearText[y] = text

\* sorted(DF[c].dropna().unique().tolist()), as a set
unique(f, c) == {x.v : x \in {y \in Range(Column(f, c)) : ~IsMissing(y)}}

\* lines 97-100 and the Dropdown of line 141
regions == {All} \cup unique(DF, Region)
segments == {All} \cup unique(DF, Segment)
categories == {All} \cup unique(DF, Category)
years == {All} \cup {str(y) : y \in unique(DF, Year)}

\* dff[dff[c] == value]: a missing cell equals nothing
where(f, c, value) ==
    [f EXCEPT !.rows =
        SelectSeq(f.rows, LAMBDA row :
            /\ ~IsMissing(row.cells[ColIndex(f, c)])
            /\ row.cells[ColIndex(f, c)].v = value)]

\* a plausible slip: the year compared as the dropdown's text, which no
\* number of the Year column equals
filter_df_year_text(f, region, segment, category, year) ==
    LET a == IF region # All THEN where(f, Region, region) ELSE f
        b == IF segment # All THEN where(a, Segment, segment) ELSE a
        c == IF category # All THEN where(b, Category, category) ELSE b
    IN IF year # All THEN [c EXCEPT !.rows = <<>>] ELSE c

\* filter_df on a copy f of DF
filter_df(f, region, segment, category, year) ==
    LET a == IF region # All THEN where(f, Region, region) ELSE f
        b == IF segment # All THEN where(a, Segment, segment) ELSE a
        c == IF category # All THEN where(b, Category, category) ELSE b
    IN IF year # All THEN where(c, Year, int(year)) ELSE c

\* Series.sum(): missing values are skipped, an empty sum is 0
sum(cells) ==
    SeqSum([i \in 1..Len(cells) |-> IF IsMissing(cells[i]) THEN 0 ELSE cells[i].v])

\* Series.nunique(): the distinct values, missing ones not counted
nunique(cells) == Len(Dedup(Present(cells)))

\* a / b on floats
truediv(a, b) == [num |-> a, den |-> b]
Zero == [num |-> 0, den |-> 1]

\* a plausible slip: the KPI quotient without its guard
kpi_ratio_unguarded(a, b) == truediv(a, b)

\* lines 230-231: (a / b) if b else 0.0
kpi_ratio(a, b) == IF b # 0 THEN truediv(a, b) ELSE Zero

\* a plausible slip: the per-group quotient without its guard
group_ratio_unguarded(a, b) == truediv(a, b)

\* lines 266 and 275: (r[a] / r[b]) if r[b] else 0.0
group_ratio(a, b) == IF b # 0 THEN truediv(a, b) ELSE Zero

\* the order of group keys: dates by day number, texts in the order of
\* TextOrder (the lexicographic order of the model's texts)
TextOrder ==
    <<"CA", "Chairs", "First Class", "High (40%+)", "Low (0-20%)",
      "Medium (20-40%)", "NY", "No Discount", "Phones", "Second Class",
      "Standard Class", "Tables", "Unknown">>
Rank(x) ==
    IF x.kind = "date" THEN x.ord
    ELSE IF \E i \in 1..Len(TextOrder) : TextOrder[i] = x.v
         THEN CHOOSE i \in 1..Len(TextOrder) : TextOrder[i] = x.v
    ELSE Len(TextOrder) + 1

\* the group keys of dff.groupby(c): the distinct values of the column,
\* missing ones dropped, sorted
group_keys(f, c) ==
    SortSeq(Dedup(Present(Column(f, c))), LAMBDA x, y : Rank(x) < Rank(y))

\* the rows of one group
group(f, c, key) ==
    [f EXCEPT !.rows = SelectSeq(f.rows, LAMBDA row : row.cells[ColIndex(f, c)] = key)]

\* lines 234-238
by_month(f) ==
    LET keys == group_keys(f, Month)
        t == [i \in 1..Len(keys) |->
                [Month |-> keys[i],
                 Sales |-> sum(Column(group(f, Month, keys[i]), Sales)),
                 Profit |-> sum(Column(group(f, Month, keys[i]), Profit))]]
    IN SortSeq(t, LAMBDA g, h : g.Month.ord < h.Month.ord)

\* dff.dropna(subset=["State Abbr"])
dropna_state(f) ==
    [f EXCEPT !.rows =
        SelectSeq(f.rows, LAMBDA row : ~IsMissing(row.cells[ColIndex(f, StateAbbr)]))]

\* lines 243-245
by_state(f) ==
    LET g == dropna_state(f)
        keys == group_keys(g, StateAbbr)
    IN [i \in 1..Len(keys) |->
          [StateAbbr |-> keys[i].v,
           Sales |-> sum(Column(group(g, StateAbbr, keys[i]), Sales)),
           Profit |-> sum(Column(group(g, StateAbbr, keys[i]), Profit))]]

\* lines 258-259: grouped, then sort_values("Profit").  The sort is a fixed
\* function of the table; groups of equal Profit are kept in key order here
\* (what the sort does with a handful of rows).
by_sub(f) ==
    LET keys == group_keys(f, SubCategory)
        t == [i \in 1..Len(keys) |->
                [SubCategory |-> keys[i].v,
                 Sales |-> sum(Column(group(f, SubCategory, keys[i]), Sales)),
                 Profit |-> sum(Column(group(f, SubCategory, keys[i]), Profit))]]
    IN SortSeq(t, LAMBDA g, h :
                \/ g.Profit < h.Profit
                \/ g.Profit = h.Profit
                     /\ Rank(Text(g.SubCategory)) < Rank(Text(h.SubCategory)))

\* lines 264-270
by_disc(f) ==
    IF HasCol(f, DiscountBucket)
    THEN LET keys == group_keys(f, DiscountBucket)
         IN [i \in 1..Len(keys) |->
               LET g == group(f, DiscountBucket, keys[i])
               IN [DiscountBucket |-> keys[i].v,
                   Sales |-> sum(Column(g, Sales)),
                   Profit |-> sum(Column(g, Profit)),
                   Margin |-> group_ratio(sum(Column(g, Profit)), sum(Column(g, Sales)))]]
    ELSE <<>>

\* lines 274-275
by_ship(f) ==
    LET keys == group_keys(f, ShipMode)
    IN [i \in 1..Len(keys) |->
          LET g == group(f, ShipMode, keys[i])
          IN [ShipMode |-> keys[i].v,
              Profit |-> sum(Column(g, Profit)),
              Orders |-> nunique(Column(g, OrderID)),
              ProfitPerOrder |->
                  group_ratio(sum(Column(g, Profit)), nunique(Column(g, OrderID)))]]

\* lines 227-231
kpis(f) ==
    [total_sales |-> sum(Column(f, Sales)),
     total_profit |-> sum(Column(f, Profit)),
     orders |-> nunique(Column(f, OrderID)),
     margin |-> kpi_ratio(sum(Column(f, Profit)), sum(Column(f, Sales))),
     aov |-> kpi_ratio(sum(Column(f, Sales)), nunique(Column(f, OrderID)))]

\* Python's float division raises ZeroDivisionError on a zero divisor
ZeroDivisionError(k) == k.margin.den = 0 \/ k.aov.den = 0

\* what update computes from dff (the values it formats and charts)
aggregate(f) ==
    [kpis |-> kpis(f),
     by_month |-> by_month(f),
     by_state |-> by_state(f),
     by_sub |-> by_sub(f),
     by_disc |-> by_disc(f),
     by_ship |-> by_ship(f)]

NoSelection == [region |-> All, segment |-> All, category |-> All, year |-> All]
NoFrame == [columns |-> <<>>, rows |-> <<>>]
NoResult ==
    [kpis |-> [total_sales |-> 0, total_profit |-> 0, orders |-> 0,
               margin |-> Zero, aov |-> Zero],
     by_month |-> <<>>, by_state |-> <<>>, by_sub |-> <<>>,
     by_disc |-> <<>>, by_ship |-> <<>>]
Idle == [pc |-> "idle", sel |-> NoSelection, dff |-> NoFrame, out |-> NoResult]

\* the cleaned files the dashboard is started on: what main writes for these
\* raw rows, and the same file without its Discount Bucket column
SharedRows ==
    { BaseRow,
      <<"2014-02-03", "2014-02-03", "US-002", "East", "Consumer", "Technology",
        "Phones", "New York", "Standard Class", "100.00", "20.00", "0",
        "90210">> }
QueryRows ==
    SharedRows \cup
    { <<"2014-01-18", "2014-01-18", "US-001", "West", "Consumer", "Furniture",
        "Tables", "California", "First Class", "50.00", "-20.00", "0.30",
        "90210">>,
      <<"2015-01-20", "", "US-003", "West", "Consumer", "Technology",
        "Phones", "Puerto Rico", "Second Class", "50.00", "20.00", "0.50",
        "">>,
      <<"2014-01-15", "", "", "East", "", "Furniture",
        "Chairs", "California", "Second Class", "0", "0", "",
        "90210">>,
      <<"not a date", "", "US-004", "", "Consumer", "Furniture",
        "Tables", "Puerto Rico", "First Class", "-100.00", "-20.00", "0.15",
        "">> }

main_csv(rows) ==
    to_csv(finished_frame(cleaned_frame(read_csv(
        [readable |-> TRUE, columns |-> FullColumns, rows |-> rows]))))

without_bucket(file) ==
    [columns |-> SubSeq(file.columns, 1, Len(file.columns) - 1),
     rows |-> [r \in 1..Len(file.rows) |->
                 SubSeq(file.rows[r], 1, Len(file.rows[r]) - 1)]]

CleanedFiles ==
    {main_csv(rows) : rows \in SeqsUpTo(QueryRows, MaxRows)} \cup
    {without_bucket(main_csv(rows)) : rows \in SeqsUpTo(QueryRows, MaxRows)}

AppInit ==
    /\ csv \in {<<file>> : file \in CleanedFiles}
    /\ DF = NotLoaded
    /\ req = [r \in Requests |-> Idle]

\* the cleaned files the dashboard serves interleaved callbacks on
SharedFiles ==
    {main_csv(rows) : rows \in SeqsUpTo(SharedRows, MaxRows)} \cup
    {without_bucket(main_csv(rows)) : rows \in SeqsUpTo(SharedRows, MaxRows)}

SharedInit ==
    /\ csv \in {<<file>> : file \in SharedFiles}
    /\ DF = NotLoaded
    /\ req = [r \in Requests |-> Idle]

\* a plausible slip: the filter applied to DF itself instead of to DF.copy()
FilterInPlace(r) ==
    /\ DF.status = "loaded"
    /\ req[r].pc = "idle"
    /\ \E region \in regions, segment \in segments,
          category \in categories, year \in years :
        /\ req' = [req EXCEPT ![r] =
              [pc |-> "filtered",
               sel |-> [region |-> region, segment |-> segment,
                        category |-> category, year |-> year],
               dff |-> filter_df(DF, region, segment, category, year),
               out |-> NoResult]]
        /\ DF' = filter_df(DF, region, segment, category, year)
    /\ UNCHANGED <<csv, etlVars, bucketVars, colsVars>>

\* line 225: update is called with a selection of the four dropdowns and
\* filters a copy of DF
Filter(r) ==
    /\ DF.status = "loaded"
    /\ req[r].pc = "idle"
    /\ \E region \in regions, segment \in segments,
          category \in categories, year \in years :
        req' = [req EXCEPT ![r] =
              [pc |-> "filtered",
               sel |-> [region |-> region, segment |-> segment,
                        category |-> category, year |-> year],
               dff |-> filter_df(DF, region, segment, category, year),
               out |-> NoResult]]
    /\ UNCHANGED <<DF, csv, etlVars, bucketVars, colsVars>>

\* lines 227-277: the KPIs and the five grouped tables of dff
Aggregate(r) ==
    /\ req[r].pc = "filtered"
    /\ LET f == req[r].dff
       IN IF ZeroDivisionError(kpis(f))
          THEN req' = [req EXCEPT ![r].pc = "raised"]
          ELSE req' = [req EXCEPT ![r].pc = "done", ![r].out = aggregate(f)]
    /\ UNCHANGED <<DF, csv, etlVars, bucketVars, colsVars>>

\* lines 279-290: the callback returns; its locals are gone
Return(r) ==
    /\ req[r].pc = "done"
    /\ req' = [req EXCEPT ![r] = Idle]
    /\ UNCHANGED <<DF, csv, etlVars, bucketVars, colsVars>>

----------------------------------------------------------------------------
(* The specifications *)

BucketIdle == bucket_x = NaN /\ bucket_out = "none"
ColsIdle ==
    /\ cols_orig = <<>>
    /\ cols_prev = <<>>
    /\ cols_cur = <<>>
    /\ cols_n = 0
EtlIdle ==
    /\ raw = [readable |-> FALSE, columns |-> <<>>, rows |-> <<>>]
    /\ etl_pc = "off"
    /\ df = NoFrame
    /\ outdir = FALSE
    /\ profile_txt = NoFile
AppIdle ==
    /\ DF = NotLoaded
    /\ req = [r \in Requests |-> Idle]

\* discount_bucket on every value
InitBucket == BucketInit /\ ColsIdle /\ EtlIdle /\ csv = NoFile /\ AppIdle
SpecBucket == InitBucket /\ [][ApplyBucket]_vars

\* normalize_columns on every header
InitCols == BucketIdle /\ ColsInit /\ EtlIdle /\ csv = NoFile /\ AppIdle
SpecCols == InitCols /\ [][Normalize]_vars

\* one run of clean_superstore.main, then the dashboard's load of its output
InitEtl == BucketIdle /\ ColsIdle /\ EtlInit /\ AppIdle
NextEtl ==
    \/ MkDir
    \/ ReadCsv
    \/ Transform
    \/ WriteCsv
    \/ WriteProfile
    \/ LoadData
SpecEtl == InitEtl /\ [][NextEtl]_vars

\* the dashboard on a cleaned file, one update callback at a time
InitApp == BucketIdle /\ ColsIdle /\ EtlIdle /\ AppInit
NextApp ==
    \/ LoadData
    \/ Filter(1)
    \/ Aggregate(1)
    \/ Return(1)
Spec == InitApp /\ [][NextApp]_vars

\* the dashboard with its update callbacks interleaved
InitConcurrent == BucketIdle /\ ColsIdle /\ EtlIdle /\ SharedInit
NextConcurrent ==
    \/ LoadData
    \/ \E r \in Requests : Filter(r)
    \/ \E r \in Requests : Aggregate(r)
    \/ \E r \in Requests : Return(r)
SpecConcurrent == InitConcurrent /\ [][NextConcurrent]_vars

----------------------------------------------------------------------------
(* The claims *)

Loaded == DF.status = "loaded"
InFlight(r) == req[r].pc \in {"filtered", "done"}
Done(r) == req[r].pc = "done"
ValueOf(f, row, c) == row.cells[ColIndex(f, c)]

\* a row of the table satisfies every predicate of the selection that is
\* not "All"
Satisfies(f, row, sel) ==
    /\ sel.region = All
        \/ (~IsMissing(ValueOf(f, row, Region)) /\ ValueOf(f, row, Region).v = sel.region)
    /\ sel.segment = All
        \/ (~IsMissing(ValueOf(f, row, Segment)) /\ ValueOf(f, row, Segment).v = sel.segment)
    /\ sel.category = All
        \/ (~IsMissing(ValueOf(f, row, Category)) /\ ValueOf(f, row, Category).v = sel.category)
    /\ sel.year = All
        \/ (~IsMissing(ValueOf(f, row, Year)) /\ YearText[ValueOf(f, row, Year).v] = sel.year)

\* the sum of column c over the rows of f that satisfy P, missing cells as 0
RECURSIVE TotalFrom(_, _, _, _)
TotalFrom(f, c, P(_), i) ==
    IF i > Len(f.rows) THEN 0
    ELSE (IF P(f.rows[i]) /\ ~IsMissing(ValueOf(f, f.rows[i], c))
          THEN ValueOf(f, f.rows[i], c).v ELSE 0) + TotalFrom(f, c, P, i + 1)
Total(f, c, P(_)) == TotalFrom(f, c, P, 1)

\* the distinct present values of column c over the rows of f that satisfy P
Distinct(f, c, P(_)) ==
    {ValueOf(f, row, c).v :
        row \in {x \in Range(f.rows) : P(x) /\ ~IsMissing(ValueOf(f, x, c))}}

Quotient(a, b) == IF b = 0 THEN [num |-> 0, den |-> 1] ELSE [num |-> a, den |-> b]

\* C1: filter_df returns exactly the rows of DF that satisfy every predicate
\* of the selection that is not "All", in their original order and with DF's
\* columns; with all four "All" the subset is the whole table and the five
\* KPIs are the aggregates over the entire table.
C1_FilterExact ==
    \A r \in Requests :
        /\ InFlight(r) =>
            /\ req[r].dff.columns = DF.columns
            /\ req[r].dff.rows =
                  SelectSeq(DF.rows, LAMBDA row : Satisfies(DF, row, req[r].sel))
            /\ req[r].sel = NoSelection => req[r].dff.rows = DF.rows
        /\ Done(r) /\ req[r].sel = NoSelection =>
            /\ req[r].out.kpis.total_sales = Total(DF, Sales, LAMBDA row : TRUE)
            /\ req[r].out.kpis.total_profit = Total(DF, Profit, LAMBDA row : TRUE)
            /\ req[r].out.kpis.orders =
                  Cardinality(Distinct(DF, OrderID, LAMBDA row : TRUE))
            /\ req[r].out.kpis.margin =
                  Quotient(Total(DF, Profit, LAMBDA row : TRUE),
                           Total(DF, Sales, LAMBDA row : TRUE))
            /\ req[r].out.kpis.aov =
                  Quotient(Total(DF, Sales, LAMBDA row : TRUE),
                           Cardinality(Distinct(DF, OrderID, LAMBDA row : TRUE)))

\* a query on two dimensions that keeps some rows of the table and drops others
C1_Witness ==
    /\ Done(1)
    /\ req[1].sel.region # All
    /\ req[1].sel.year # All
    /\ req[1].sel.segment = All
    /\ req[1].dff.rows # <<>>
    /\ Len(req[1].dff.rows) < Len(DF.rows)

\* C2: no step of any update callback, in any interleaving, changes the
\* loaded table DF, and a finished query's result is the one its selection
\* gives on DF alone: two callbacks with the same selection hold the same
\* result whatever ran in between.
C2_TableUnchanged ==
    /\ [][Loaded => DF' = DF]_vars
    /\ [](\A r \in Requests :
            Done(r) =>
                req[r].out =
                    aggregate(filter_df(DF, req[r].sel.region, req[r].sel.segment,
                                        req[r].sel.category, req[r].sel.year)))
    /\ [](\A r1, r2 \in Requests :
            (Done(r1) /\ Done(r2) /\ req[r1].sel = req[r2].sel) =>
                req[r1].out = req[r2].out)

\* two callbacks finished with the same proper selection
C2_Witness ==
    /\ Done(1)
    /\ Done(2)
    /\ req[1].sel = req[2].sel
    /\ req[1].sel.category # All
    /\ req[1].dff.rows # <<>>
    /\ Len(req[1].dff.rows) < Len(DF.rows)

\* C3: every ratio of a finished query is its numerator over its denominator
\* when the denominator is not 0 and is 0 when it is: Margin (Total Profit /
\* Total Sales), AOV (Total Sales / Orders), the Margin of each Discount
\* Bucket group and the Profit per Order of each Ship Mode group; no ratio
\* has a zero divisor, whatever the filtered subset.
C3_RatiosGuarded ==
    \A r \in Requests :
        Done(r) =>
            LET k == req[r].out.kpis
                disc == req[r].out.by_disc
                ship == req[r].out.by_ship
            IN /\ k.margin = Quotient(k.total_profit, k.total_sales)
               /\ k.aov = Quotient(k.total_sales, k.orders)
               /\ k.margin.den # 0 /\ k.aov.den # 0
               /\ \A i \in 1..Len(disc) :
                    /\ disc[i].Margin = Quotient(disc[i].Profit, disc[i].Sales)
                    /\ disc[i].Margin.den # 0
               /\ \A i \in 1..Len(ship) :
                    /\ ship[i].ProfitPerOrder = Quotient(ship[i].Profit, ship[i].Orders)
                    /\ ship[i].ProfitPerOrder.den # 0

\* a finished query on a subset that is not empty, with a Discount Bucket
\* group of zero Sales, a Ship Mode group of no orders and a bucket of
\* non-zero Sales
C3_Witness ==
    /\ Done(1)
    /\ \E i \in 1..Len(req[1].out.by_disc) : req[1].out.by_disc[i].Sales = 0
    /\ \E i \in 1..Len(req[1].out.by_disc) : req[1].out.by_disc[i].Sales # 0
    /\ \E i \in 1..Len(req[1].out.by_ship) : req[1].out.by_ship[i].Orders = 0

\* C6: update never raises, and on an empty filtered subset the KPIs are 0
\* and the five grouped tables are empty.
C6_NeverRaises ==
    \A r \in Requests :
        /\ req[r].pc # "raised"
        /\ (Done(r) /\ req[r].dff.rows = <<>>) =>
            /\ req[r].out.kpis =
                  [total_sales |-> 0, total_profit |-> 0, orders |-> 0,
                   margin |-> Zero, aov |-> Zero]
            /\ req[r].out.by_month = <<>>
            /\ req[r].out.by_state = <<>>
            /\ req[r].out.by_sub = <<>>
            /\ req[r].out.by_disc = <<>>
            /\ req[r].out.by_ship = <<>>

\* a finished query whose selection matches no row of a table that has rows
C6_Witness ==
    /\ Done(1)
    /\ req[1].dff.rows = <<>>
    /\ DF.rows # <<>>
    /\ HasCol(DF, DiscountBucket)

Recognized(f, row) ==
    /\ ~IsMissing(ValueOf(f, row, State))
    /\ ValueOf(f, row, State).v \in DOMAIN STATE_TO_ABBR

\* C9: a row whose State is not in STATE_TO_ABBR has a missing State Abbr in
\* DF; the by-state table of a finished query has one entry per abbreviation
\* of the subset's recognized States, with the Sales and Profit of those rows
\* summed, so unrecognized rows are in no entry; and Total Sales, Total Profit
\* and Orders count every row of DF the selection matches, recognized or not.
C9_UnmappedState ==
    /\ Loaded =>
        \A i \in 1..Len(DF.rows) :
            IF Recognized(DF, DF.rows[i])
            THEN ValueOf(DF, DF.rows[i], StateAbbr) =
                    Text(STATE_TO_ABBR[ValueOf(DF, DF.rows[i], State).v])
            ELSE IsMissing(ValueOf(DF, DF.rows[i], StateAbbr))
    /\ \A r \in Requests :
        Done(r) =>
            LET t == req[r].out.by_state
                k == req[r].out.kpis
                Match(row) == Satisfies(DF, row, req[r].sel)
                In(abbr, row) ==
                    /\ Match(row)
                    /\ Recognized(DF, row)
                    /\ STATE_TO_ABBR[ValueOf(DF, row, State).v] = abbr
            IN /\ {t[i].StateAbbr : i \in 1..Len(t)} =
                    {STATE_TO_ABBR[ValueOf(DF, row, State).v] :
                        row \in {x \in Range(DF.rows) : Match(x) /\ Recognized(DF, x)}}
               /\ \A i, j \in 1..Len(t) : t[i].StateAbbr = t[j].StateAbbr => i = j
               /\ \A i \in 1..Len(t) :
                    /\ t[i].Sales = Total(DF, Sales, LAMBDA row : In(t[i].StateAbbr, row))
                    /\ t[i].Profit = Total(DF, Profit, LAMBDA row : In(t[i].StateAbbr, row))
               /\ k.total_sales = Total(DF, Sales, Match)
               /\ k.total_profit = Total(DF, Profit, Match)
               /\ k.orders = Cardinality(Distinct(DF, OrderID, Match))

\* a finished query whose subset holds a row of an unrecognized State, with
\* Sales and an Order ID, beside a row of a recognized one
C9_Witness ==
    /\ Done(1)
    /\ Len(req[1].dff.rows) = 2
    /\ Len(req[1].out.by_state) = 1
    /\ \E i \in 1..2 :
        /\ ~IsMissing(ValueOf(DF, req[1].dff.rows[i], State))
        /\ ~Recognized(DF, req[1].dff.rows[i])
        /\ ~IsMissing(ValueOf(DF, req[1].dff.rows[i], OrderID))
        /\ ValueOf(DF, req[1].dff.rows[i], Sales).v > 0
    /\ req[1].out.kpis.total_sales > req[1].out.by_state[1].Sales

\* the calendar month of a row's Order Date
MonthOf(f, row) == <<ValueOf(f, row, OrderDate).y, ValueOf(f, row, OrderDate).m>>
Dated(f, row) == ~IsMissing(ValueOf(f, row, OrderDate))

\* C10: the trend table of a finished query has exactly one entry per
\* calendar month of the subset's Order Dates, keyed by the month's first
\* day, each with the Sales and Profit of the subset's rows of that month
\* summed, in ascending month order; an empty subset gives an empty table.
C10_TrendByMonth ==
    \A r \in Requests :
        Done(r) =>
            LET t == req[r].out.by_month
                f == req[r].dff
                In(i, row) == Dated(f, row) /\ MonthOf(f, row) = <<t[i].Month.y, t[i].Month.m>>
            IN /\ {<<t[i].Month.y, t[i].Month.m>> : i \in 1..Len(t)} =
                    {MonthOf(f, row) : row \in {x \in Range(f.rows) : Dated(f, x)}}
               /\ Len(t) =
                    Cardinality({MonthOf(f, row) : row \in {x \in Range(f.rows) : Dated(f, x)}})
               /\ \A i \in 1..Len(t) :
                    /\ t[i].Month.d = 1
                    /\ t[i].Sales = Total(f, Sales, LAMBDA row : In(i, row))
                    /\ t[i].Profit = Total(f, Profit, LAMBDA row : In(i, row))
               /\ \A i, j \in 1..Len(t) :
                    i < j => \/ t[i].Month.y < t[j].Month.y
                             \/ t[i].Month.y = t[j].Month.y /\ t[i].Month.m < t[j].Month.m
               /\ f.rows = <<>> => t = <<>>

\* a finished query over two orders placed on different days of one month
C10_Witness ==
    /\ Done(1)
    /\ Len(req[1].dff.rows) = 2
    /\ Dated(req[1].dff, req[1].dff.rows[1])
    /\ Dated(req[1].dff, req[1].dff.rows[2])
    /\ ValueOf(DF, req[1].dff.rows[1], OrderDate) # ValueOf(DF, req[1].dff.rows[2], OrderDate)
    /\ Len(req[1].out.by_month) = 1
    /\ req[1].out.by_month[1].Sales =
          ValueOf(DF, req[1].dff.rows[1], Sales).v + ValueOf(DF, req[1].dff.rows[2], Sales).v

\* C4: discount_bucket returns one of the five literals for every value and
\* never raises: "Unknown" for a missing or non-numeric value (the comparison
\* that raises is caught), "No Discount" for 0, "Low" for 0 < d <= 0.20,
\* "Medium" for 0.20 < d <= 0.40 and "High" for d > 0.40.
C4_BucketTable ==
    bucket_out # "none" =>
        /\ bucket_out \in Buckets
        /\ bucket_x.kind # "num" => bucket_out = Unknown
        /\ bucket_x.kind = "num" =>
            /\ bucket_x.v = 0 => bucket_out = NoDiscount
            /\ (0 < bucket_x.v /\ bucket_x.v <= LowMax) => bucket_out = Low
            /\ (LowMax < bucket_x.v /\ bucket_x.v <= MediumMax) => bucket_out = Medium
            /\ bucket_x.v > MediumMax => bucket_out = High

\* a value that is not a number went through discount_bucket
C4_Witness == bucket_x = Str /\ bucket_out = Unknown

\* the columns main needs that the reconciled header of the raw file lacks
RawMissing == missing_columns(normalize_columns(raw.columns))

\* C5, as stated: with required columns missing after reconciliation main
\* aborts and writes neither the cleaned CSV nor the profiling report.
C5_AbortsOnMissingColumns ==
    (raw.readable /\ RawMissing # <<>>) =>
        /\ etl_pc # "done"
        /\ csv = NoFile
        /\ profile_txt = NoFile

\* C5, amended: an unreadable source file makes main raise at read_csv, and
\* whenever main raises neither output has been written; missing columns do
\* not make main raise (it raises only on an unreadable file or a Postal Code
\* column that cannot be cast): it ends with both outputs written, and the
\* ValueError naming missing columns is load_data's, on that file (from its
\* read_csv for a missing date column, from its own check otherwise).
C5_MissingColumnsTolerated ==
    /\ etl_pc = "raised" => (csv = NoFile /\ profile_txt = NoFile)
    /\ ~raw.readable => etl_pc \in {"start", "read", "raised"}
    /\ etl_pc = "raised" =>
          \/ ~raw.readable
          \/ \E i \in 1..Len(raw.columns) :
                /\ normalize_columns(raw.columns)[i] = PostalCode
                /\ \E r \in 1..Len(raw.rows) :
                      raw.rows[r][i] \notin NaValues \cup IntegralTexts
    /\ etl_pc = "done" =>
          /\ csv # NoFile
          /\ profile_txt # NoFile
          /\ csv[1].columns = df.columns
    /\ (etl_pc = "done" /\ DF.status # "none") =>
          IF RawMissing # <<>> \/ ShipDate \notin Range(csv[1].columns)
          THEN /\ DF.status = "ValueError"
               /\ DF.missing # <<>>
               /\ \A c \in Range(DF.missing) : c \notin Range(csv[1].columns)
               /\ OrderDate \in Range(csv[1].columns) /\ ShipDate \in Range(csv[1].columns)
                     => DF.missing = RawMissing
          ELSE DF.status # "ValueError"

\* main ended normally on a file that lacks required columns, and the
\* dashboard's load of the cleaned file raised
C5_Witness ==
    /\ etl_pc = "done"
    /\ RawMissing # <<>>
    /\ csv # NoFile
    /\ profile_txt # NoFile
    /\ DF.status = "ValueError"

FullyEmpty(cells) == \A i \in 1..Len(cells) : cells[i] \in NaValues
Pruned == etl_pc \in {"write_csv", "write_profile", "done"}

NoSpaces(name) == SelectSeq(name, LAMBDA t : ~IsSpace(t))
Trimmed(name) ==
    /\ name # <<>> => (~IsSpace(name[1]) /\ ~IsSpace(name[Len(name)]))
    /\ \A i \in 1..(Len(name) - 1) : ~(IsSpace(name[i]) /\ IsSpace(name[i + 1]))

\* C8: a second normalize_columns changes nothing the first produced; a
\* header of canonical names is returned as it is; and a name that is no key
\* of renames once trimmed keeps its words, with no leading, trailing or
\* repeated space.
C8_Idempotent ==
    /\ cols_n >= 2 => cols_cur = cols_prev
    /\ (cols_n >= 1 /\ \A i \in 1..Len(cols_orig) : cols_orig[i] \in Canonical) =>
          cols_cur = cols_orig
    /\ cols_n >= 1 =>
          /\ Len(cols_cur) = Len(cols_orig)
          /\ \A i \in 1..Len(cols_orig) :
                /\ Trimmed(cols_cur[i])
                /\ cols_cur[i] # SubCategory => NoSpaces(cols_cur[i]) = NoSpaces(cols_orig[i])
                /\ cols_cur[i] = SubCategory =>
                      NoSpaces(cols_orig[i]) \in {<<"Sub", "Category">>, <<"Sub-Category">>}

\* a padded "Sub Category" went through normalize_columns twice
C8_Witness ==
    /\ cols_n = 2
    /\ cols_orig = <<(<<SP, "Sub", SP, "Category">>)>>
    /\ cols_prev = <<SubCategory>>
    /\ cols_cur = <<SubCategory>>

====
